---------------------------- MODULE Spec2Model ----------------------------
(***************************************************************************)
(* Model of src/main.py: the test-mode path of the dependency visualizer.  *)
(*                                                                         *)
(*   load_test_repo                  lines 113-138  (ReadLine, LoadReturn)  *)
(*   build_dependency_graph_dfs      lines 142-184  (Enter, Iterate, Exit)  *)
(*   get_full_dependency_graph_test  lines 187-193  (GetFull, GetFullReturn)*)
(*   main, test mode                 lines 257-271                          *)
(*                                                                         *)
(* The recursion of build_dependency_graph_dfs is unfolded into an         *)
(* explicit call stack: one frame per active call, the frame's pc telling  *)
(* whether the call is at its first statement ("entry", line 158) or in    *)
(* its for loop ("loop", lines 181-182).                                   *)
(***************************************************************************)
EXTENDS Integers, Sequences, FiniteSets, TLC

VARIABLES
    pc,          \* where main is: "load", "error", "loaded", "dfs", "done"
    line_num,    \* load_test_repo: enumerate(f, 1) counter (0 before the first line)
    line,        \* load_test_repo: the current line after line.strip()
    file_repo,   \* load_test_repo: the local dict repo being filled
    err_line,    \* the line number carried by the raised ValueError (0: none)
    repo,        \* the dict passed to build_dependency_graph_dfs (main's test_repo)
    root,        \* main's package, the root of the resolution
    visited,     \* set visited
    path,        \* list path
    graph,       \* dict graph: the key -> list mapping
    graph_keys,  \* dict graph: its keys in insertion order
    cycles,      \* list cycles
    stack        \* the active calls of build_dependency_graph_dfs, outermost first

vars == <<pc, line_num, line, file_repo, err_line, repo, root,
          visited, path, graph, graph_keys, cycles, stack>>

loadVars == <<line_num, line, file_repo, err_line>>
dfsVars == <<visited, path, graph, graph_keys, cycles, stack>>

-----------------------------------------------------------------------------
(* Bounds of the model *)

NumPkgs == 3
MaxEdges == 3
MaxLines == 2
MaxLineLen == 4

-----------------------------------------------------------------------------
(* Python list and dict helpers *)

EmptyDict == [x \in {} |-> <<>>]

\* d[k] = v on a dict
DictSet(d, k, v) == [x \in (DOMAIN d) \cup {k} |-> IF x = k THEN v ELSE d[x]]

\* the insertion-ordered key list of a dict after d[k] = v
KeysAfterSet(keys, d, k) == IF k \in DOMAIN d THEN keys ELSE Append(keys, k)

\* x in s, for a list s
InSeq(x, s) == \E i \in 1..Len(s) : s[i] = x

\* s.index(x): the first position of x (1-based here)
IndexOf(x, s) == CHOOSE i \in 1..Len(s) : s[i] = x /\ \A j \in 1..(i-1) : s[j] # x

Range(s) == {s[i] : i \in 1..Len(s)}

-----------------------------------------------------------------------------
(* The repositories the traversal is run on *)

PkgNames == <<"A", "B", "C", "D", "E", "F">>
Names == {PkgNames[i] : i \in 1..NumPkgs}

\* the two repositories of the documented test cases
MutualRepo == [n \in {"A", "B"} |-> IF n = "A" THEN <<"B">> ELSE <<"A">>]
DiamondRepo == [n \in {"A", "B", "C"} |->
                  IF n = "A" THEN <<"B", "C">> ELSE <<"D">>]
ExampleRepos == {MutualRepo, DiamondRepo}

RECURSIVE SumLens(_, _)
\* the number of list elements of the keys in S, lens[n] being the length of n's list
SumLens(lens, S) ==
    IF S = {} THEN 0
    ELSE LET x == CHOOSE y \in S : TRUE IN lens[x] + SumLens(lens, S \ {x})

NameIdx(n) == CHOOSE i \in 1..NumPkgs : PkgNames[i] = n

\* the dict whose key n has the next lens[n] elements of edges, keys taken in name order
RepoOf(lens, edges) ==
    [n \in DOMAIN lens |->
        LET before == SumLens(lens, {m \in DOMAIN lens : NameIdx(m) < NameIdx(n)})
        IN  SubSeq(edges, before + 1, before + lens[n])]

\* r is a dict with keys in Names and lists over Names of at most MaxEdges elements in all
BoundedRepo(r) ==
    \E K \in SUBSET Names : \E lens \in [K -> 0..MaxEdges] :
        /\ SumLens(lens, K) <= MaxEdges
        /\ \E edges \in [1..SumLens(lens, K) -> Names] : r = RepoOf(lens, edges)

Ids == Names \cup UNION { (DOMAIN r) \cup UNION { Range(r[k]) : k \in DOMAIN r }
                          : r \in ExampleRepos }

-----------------------------------------------------------------------------
(* build_dependency_graph_dfs *)

EntryFrame(p) == [pkg |-> p, pc |-> "entry", i |-> 0, deps |-> <<>>]

Top == stack[Len(stack)]
Pop(s) == SubSeq(s, 1, Len(s) - 1)

\* the visited test left out
AlreadyVisitedNever(start_pkg, vis) == FALSE

\* line 158: start_pkg in visited
AlreadyVisited(start_pkg, vis) == start_pkg \in vis

RECURSIVE SeqOfSet(_)
SeqOfSet(S) == IF S = {} THEN <<>>
               ELSE LET x == CHOOSE y \in S : TRUE IN <<x>> \o SeqOfSet(S \ {x})

\* the loop run over the keys of repo instead of the list of start_pkg
LoopDepsAllKeys(r, start_pkg) == SeqOfSet(DOMAIN r)

\* line 178 and 181: deps = repo[start_pkg], the list the for loop iterates
LoopDeps(r, start_pkg) == r[start_pkg]

\* deps[::-1] in place of deps[:]
CopyReversed(deps) == [k \in 1..Len(deps) |-> deps[Len(deps) + 1 - k]]

\* line 179: deps[:]
CopyOf(deps) == deps

\* the loop skipping every second element
NextIndexSkip(i) == i + 2

\* the loop never leaving its first element
NextIndexStuck(i) == i

\* line 181: the step of the for loop from one element to the next
NextIndex(i) == i + 1

\* the pop left out
PathPopMissing(p) == p

\* line 184: path.pop()
PathPop(p) == SubSeq(p, 1, Len(p) - 1)

\* lines 158-179: the call's statements up to the for loop
Enter ==
    /\ pc = "dfs"
    /\ stack # <<>>
    /\ Top.pc = "entry"
    /\ LET start_pkg == Top.pkg IN
       IF AlreadyVisited(start_pkg, visited) THEN
           /\ stack' = Pop(stack)
           /\ UNCHANGED <<visited, path, graph, graph_keys, cycles>>
       ELSE IF start_pkg \notin DOMAIN repo THEN
           /\ graph' = DictSet(graph, start_pkg, <<>>)
           /\ graph_keys' = KeysAfterSet(graph_keys, graph, start_pkg)
           /\ visited' = visited \cup {start_pkg}
           /\ stack' = Pop(stack)
           /\ UNCHANGED <<path, cycles>>
       ELSE IF InSeq(start_pkg, path) THEN
           /\ LET cycle_start_index == IndexOf(start_pkg, path)
                  cycle == SubSeq(path, cycle_start_index, Len(path)) \o <<start_pkg>>
              IN  cycles' = Append(cycles, cycle)
           /\ graph' = DictSet(graph, start_pkg, repo[start_pkg])
           /\ graph_keys' = KeysAfterSet(graph_keys, graph, start_pkg)
           /\ visited' = visited \cup {start_pkg}
           /\ stack' = Pop(stack)
           /\ UNCHANGED path
       ELSE
           /\ visited' = visited \cup {start_pkg}
           /\ path' = Append(path, start_pkg)
           /\ graph' = DictSet(graph, start_pkg, CopyOf(LoopDeps(repo, start_pkg)))
           /\ graph_keys' = KeysAfterSet(graph_keys, graph, start_pkg)
           /\ stack' = [stack EXCEPT ![Len(stack)] =
                           [pkg |-> start_pkg, pc |-> "loop", i |-> 1,
                            deps |-> LoopDeps(repo, start_pkg)]]
           /\ UNCHANGED cycles
    /\ UNCHANGED <<pc, repo, root, loadVars>>

\* lines 181-182: one iteration of the for loop, the recursive call
Iterate ==
    /\ pc = "dfs"
    /\ stack # <<>>
    /\ Top.pc = "loop"
    /\ Top.i <= Len(Top.deps)
    /\ stack' = Append([stack EXCEPT ![Len(stack)].i = NextIndex(Top.i)],
                       EntryFrame(Top.deps[Top.i]))
    /\ UNCHANGED <<pc, repo, root, loadVars, visited, path, graph, graph_keys, cycles>>

\* line 184: the loop is exhausted, path.pop() and return
Exit ==
    /\ pc = "dfs"
    /\ stack # <<>>
    /\ Top.pc = "loop"
    /\ Top.i > Len(Top.deps)
    /\ path' = PathPop(path)
    /\ stack' = Pop(stack)
    /\ UNCHANGED <<pc, repo, root, loadVars, visited, graph, graph_keys, cycles>>

-----------------------------------------------------------------------------
(* get_full_dependency_graph_test *)

\* lines 188-192: fresh state and the call on root
GetFull ==
    /\ pc = "loaded"
    /\ visited' = {}
    /\ path' = <<>>
    /\ graph' = EmptyDict
    /\ graph_keys' = <<>>
    /\ cycles' = <<>>
    /\ stack' = <<EntryFrame(root)>>
    /\ pc' = "dfs"
    /\ UNCHANGED <<repo, root, loadVars>>

\* line 193: return graph, cycles
GetFullReturn ==
    /\ pc = "dfs"
    /\ stack = <<>>
    /\ pc' = "done"
    /\ UNCHANGED <<repo, root, loadVars, dfsVars>>

-----------------------------------------------------------------------------
(* The traversal on its own: any repository, any root *)

Init ==
    /\ pc = "loaded"
    /\ (BoundedRepo(repo) \/ repo \in ExampleRepos)
    /\ root \in Ids
    /\ line_num = 0 /\ line = <<>> /\ file_repo = EmptyDict /\ err_line = 0
    /\ visited = {} /\ path = <<>> /\ graph = EmptyDict /\ graph_keys = <<>>
    /\ cycles = <<>> /\ stack = <<>>

Next == GetFull \/ Enter \/ Iterate \/ Exit \/ GetFullReturn

Spec == Init /\ [][Next]_vars

FairSpec == Spec /\ WF_vars(Next)

-----------------------------------------------------------------------------
(* Characters and the str methods load_test_repo uses.  A character is     *)
(* named by a string: two Latin capitals, a Latin small letter, U+0411     *)
(* (CYRILLIC CAPITAL LETTER BE), the colon, the hash and the space.        *)

Chars == {"A", "B", "a", "U0411", ":", "#", " "}

IsSpaceChar(c) == c = " "
IsAlphaChar(c) == c \in {"A", "B", "a", "U0411"}
IsUpperChar(c) == c \in {"A", "B", "U0411"}
IsCasedChar(c) == c \in {"A", "B", "a", "U0411"}

RECURSIVE LStrip(_), RStrip(_)
LStrip(s) == IF s # <<>> /\ IsSpaceChar(Head(s)) THEN LStrip(Tail(s)) ELSE s
RStrip(s) == IF s # <<>> /\ IsSpaceChar(s[Len(s)])
             THEN RStrip(SubSeq(s, 1, Len(s) - 1)) ELSE s

\* str.strip()
Strip(s) == RStrip(LStrip(s))

\* str.isupper(): at least one cased character and every cased character is uppercase
IsUpper(s) == /\ \E i \in 1..Len(s) : IsCasedChar(s[i])
              /\ \A i \in 1..Len(s) : IsCasedChar(s[i]) => IsUpperChar(s[i])

\* str.isalpha(): at least one character and every character is alphabetic
IsAlpha(s) == s # <<>> /\ \A i \in 1..Len(s) : IsAlphaChar(s[i])

RECURSIVE SplitWs(_)
\* str.split(): the maximal runs of non-whitespace characters, in order
SplitWs(s) ==
    LET t == LStrip(s) IN
    IF t = <<>> THEN <<>>
    ELSE LET ends == {i \in 1..Len(t) : IsSpaceChar(t[i])}
             n == IF ends = {} THEN Len(t)
                  ELSE (CHOOSE i \in ends : \A j \in ends : i <= j) - 1
         IN  <<SubSeq(t, 1, n)>> \o SplitWs(SubSeq(t, n + 1, Len(t)))

\* line 128 and line 133: not x.isupper() or not x.isalpha()
NameRejected(x) == ~IsUpper(x) \/ ~IsAlpha(x)

\* the lines a file can hold (without the line terminator, which strip() removes)
RawLines == UNION { [1..n -> Chars] : n \in 0..MaxLineLen }

-----------------------------------------------------------------------------
(* load_test_repo *)

\* lines 119-135: the body of the for loop on one line of the file;
\* ok = FALSE is the raise ValueError, repo the dict after the body
LineResult(raw, r) ==
    LET ln == Strip(raw) IN
    IF ln = <<>> \/ Head(ln) = "#" THEN [ok |-> TRUE, repo |-> r]
    ELSE IF ~InSeq(":", ln) THEN [ok |-> FALSE, repo |-> r]
    ELSE LET at == IndexOf(":", ln)
             pkg == Strip(SubSeq(ln, 1, at - 1))
             deps_part == SubSeq(ln, at + 1, Len(ln))
             found == SplitWs(deps_part)
             deps == SelectSeq([k \in 1..Len(found) |-> Strip(found[k])],
                               LAMBDA d : d # <<>>)
         IN  IF pkg = <<>> THEN [ok |-> FALSE, repo |-> r]
             ELSE IF NameRejected(pkg) THEN [ok |-> FALSE, repo |-> r]
             ELSE IF \E k \in 1..Len(deps) : NameRejected(deps[k])
                  THEN [ok |-> FALSE, repo |-> r]
             ELSE [ok |-> TRUE, repo |-> DictSet(r, pkg, deps)]

\* lines 118-135: the next line of the file is read and processed
ReadLine ==
    /\ pc = "load"
    /\ line_num < MaxLines
    /\ \E raw \in RawLines :
          LET res == LineResult(raw, file_repo) IN
          /\ line_num' = line_num + 1
          /\ line' = Strip(raw)
          /\ file_repo' = res.repo
          /\ IF res.ok THEN pc' = "load" /\ err_line' = err_line
                       ELSE pc' = "error" /\ err_line' = line_num + 1
    /\ UNCHANGED <<repo, root, dfsVars>>

\* line 136 and line 270: the file is exhausted, return repo; main binds test_repo
LoadReturn ==
    /\ pc = "load"
    /\ repo' = file_repo
    /\ pc' = "loaded"
    /\ line_num' = 0 /\ line' = <<>> /\ file_repo' = EmptyDict
    /\ UNCHANGED <<err_line, root, dfsVars>>

-----------------------------------------------------------------------------
(* main in test mode: load the file, then resolve *)

\* line 267: the package names main lets through to the load
MainRoots == {t \in [1..1 -> Chars] : IsUpper(t) /\ IsAlpha(t)}

InitMain ==
    /\ pc = "load"
    /\ root \in MainRoots
    /\ repo = EmptyDict
    /\ line_num = 0 /\ line = <<>> /\ file_repo = EmptyDict /\ err_line = 0
    /\ visited = {} /\ path = <<>> /\ graph = EmptyDict /\ graph_keys = <<>>
    /\ cycles = <<>> /\ stack = <<>>

NextMain == ReadLine \/ LoadReturn \/ GetFull \/ Enter \/ Iterate \/ Exit \/ GetFullReturn

SpecMain == InitMain /\ [][NextMain]_vars


-----------------------------------------------------------------------------
(* Vocabulary of the properties *)

RECURSIVE ReachFrom(_, _)
\* the identifiers reachable from the set S by zero or more dependency edges of r
ReachFrom(r, S) ==
    LET T == S \cup UNION { Range(r[n]) : n \in S \cap DOMAIN r }
    IN  IF T = S THEN S ELSE ReachFrom(r, T)

Reachable == ReachFrom(repo, {root})

\* n lies on a dependency cycle of the repository
OnCycle(n) == n \in DOMAIN repo /\ n \in ReachFrom(repo, Range(repo[n]))

Running == pc \in {"dfs", "done"}

NoDup(s) == \A i, j \in 1..Len(s) : i # j => s[i] # s[j]

\* the packages of the calls that are in their for loop, outermost first
LoopPkgs(s) ==
    LET loops == SelectSeq(s, LAMBDA f : f.pc = "loop")
    IN  [k \in 1..Len(loops) |-> loops[k].pkg]

\* a call of build_dependency_graph_dfs is at its first statement
AtCall == pc = "dfs" /\ stack # <<>> /\ Top.pc = "entry"

-----------------------------------------------------------------------------
(* C1: a call on an identifier that has a repository entry and is already   *)
(* on the DFS path appends path[first occurrence ..] + [identifier] to the *)
(* cycle list; for A: B, B: A with root A the result is the graph          *)
(* {A: [B], B: [A]} and the cycle list [[A, B, A]].                         *)
C1_BackEdgeRecordsCycle ==
    [][ /\ (AtCall /\ Top.pkg \in DOMAIN repo /\ InSeq(Top.pkg, path))
            => cycles' = Append(cycles,
                   SubSeq(path, IndexOf(Top.pkg, path), Len(path)) \o <<Top.pkg>>)
        /\ (pc' = "done" /\ repo = MutualRepo /\ root = "A")
            => (graph' = MutualRepo /\ cycles' = << <<"A", "B", "A">> >>)
      ]_vars

-----------------------------------------------------------------------------
(* C2: for every repository and root the resolution eventually returns.    *)
C2_Terminates == <>(pc = "done")

C2_Witness == pc = "done" /\ \E n \in Reachable : OnCycle(n)

-----------------------------------------------------------------------------
(* C3: at every point of the traversal and in the result, every key of the *)
(* dependency graph is reachable from root by zero or more dependency      *)
(* edges of the repository.                                                *)
C3_KeysReachable == Running => DOMAIN graph \subseteq Reachable

C3_Witness ==
    /\ pc = "done"
    /\ Cardinality(DOMAIN graph) >= 2
    /\ \E n \in DOMAIN repo : n \notin Reachable

-----------------------------------------------------------------------------
(* C4: in the returned result every identifier reachable from root (root   *)
(* itself and identifiers without a repository entry included) is a key of *)
(* the dependency graph, also when the reachable part has cycles.          *)
C4_AllReachableAreKeys == pc = "done" => Reachable \subseteq DOMAIN graph

C4_Witness ==
    /\ pc = "done"
    /\ \E n \in Reachable : OnCycle(n)
    /\ \E n \in Reachable : n \notin DOMAIN repo

-----------------------------------------------------------------------------
(* C5: for every key n of the dependency graph, in every state: graph[n]   *)
(* is repo[n], same elements in the same order with duplicates kept, when  *)
(* n has a repository entry, and the empty list when it has none.          *)
C5_RecordedVerbatim ==
    Running => \A n \in DOMAIN graph :
                  graph[n] = IF n \in DOMAIN repo THEN repo[n] ELSE <<>>

C5_Witness ==
    /\ pc = "done"
    /\ \E n \in DOMAIN graph : n \notin DOMAIN repo
    /\ \E n \in DOMAIN graph : Len(graph[n]) >= 2 /\ graph[n][1] = graph[n][2]

-----------------------------------------------------------------------------
(* C6: every identifier is expanded at most once: a call that does         *)
(* anything but return at once is on an identifier that is neither visited *)
(* nor a key of the graph and marks it visited; visited never shrinks and  *)
(* a recorded entry never changes; a call on a visited identifier returns  *)
(* at once leaving visited, path, graph and cycles alone; no identifier    *)
(* has two calls in their for loop. For A: B C, B: D, C: D with root A the *)
(* result is {A:[B,C], B:[D], C:[D], D:[]} with no cycle.                  *)
DiamondGraph == [n \in {"A", "B", "C", "D"} |->
                   IF n = "D" THEN <<>> ELSE DiamondRepo[n]]

ReturnsAtOnce ==
    /\ stack' = Pop(stack)
    /\ UNCHANGED <<visited, path, graph, graph_keys, cycles>>

C6_ExpandedOnce ==
    [][ /\ visited \subseteq visited'
        /\ \A n \in DOMAIN graph : n \in DOMAIN graph' /\ graph'[n] = graph[n]
        /\ (AtCall /\ Top.pkg \in visited) => ReturnsAtOnce
        /\ (AtCall /\ ~ReturnsAtOnce)
              => /\ Top.pkg \notin visited
                 /\ Top.pkg \notin DOMAIN graph
                 /\ Top.pkg \in visited'
                 /\ graph_keys' = Append(graph_keys, Top.pkg)
        /\ NoDup(LoopPkgs(stack'))
        /\ NoDup(graph_keys')
        /\ (pc' = "done" /\ repo = DiamondRepo /\ root = "A")
              => (graph' = DiamondGraph /\ cycles' = <<>>)
      ]_vars

C6_Witness ==
    /\ pc = "done" /\ repo = DiamondRepo /\ root = "A"
    /\ "D" \in DOMAIN graph

-----------------------------------------------------------------------------
(* C9: the identifiers are recorded in the graph in the depth-first        *)
(* pre-order of the repository from root, dependencies left to right, and  *)
(* the cycle list holds the cycles of the back-edges in the order that     *)
(* traversal meets them.                                                   *)
RECURSIVE RefVisit(_, _, _), RefVisitAll(_, _, _)
\* the reference depth-first traversal: st = [order, cycles], p the path to n
RefVisit(n, p, st) ==
    IF InSeq(n, p) THEN
        [st EXCEPT !.cycles = Append(@, SubSeq(p, IndexOf(n, p), Len(p)) \o <<n>>)]
    ELSE IF InSeq(n, st.order) THEN st
    ELSE LET st1 == [st EXCEPT !.order = Append(@, n)]
         IN  IF n \in DOMAIN repo THEN RefVisitAll(repo[n], Append(p, n), st1)
             ELSE st1
RefVisitAll(ds, p, st) ==
    IF ds = <<>> THEN st
    ELSE RefVisitAll(Tail(ds), p, RefVisit(Head(ds), p, st))

RefResult == RefVisit(root, <<>>, [order |-> <<>>, cycles |-> <<>>])

C9_PreOrderAndCycleOrder ==
    pc = "done" => (graph_keys = RefResult.order /\ cycles = RefResult.cycles)

-----------------------------------------------------------------------------
(* C10: the DFS path is a simple path of the repository that starts at     *)
(* root and lies within visited; it is no longer than the number of        *)
(* repository keys; it is the list of the calls in progress, so a return   *)
(* leaves it as the call found it, and it is empty when the resolution     *)
(* returns.                                                                *)
C10_PathSimple ==
    Running =>
        /\ (path # <<>> => path[1] = root)
        /\ NoDup(path)
        /\ \A k \in 1..(Len(path) - 1) :
              path[k] \in DOMAIN repo /\ InSeq(path[k+1], repo[path[k]])
        /\ Range(path) \subseteq visited
        /\ Len(path) <= Cardinality(DOMAIN repo)
        /\ path = LoopPkgs(stack)
        /\ (stack = <<>> => path = <<>>)

C10_Witness ==
    /\ AtCall
    /\ Len(path) >= 2
    /\ InSeq(Top.pkg, path)

-----------------------------------------------------------------------------
(* The file format as documented: a retained line is IDENTIFIER ":" then   *)
(* whitespace-separated dependency tokens, each an [A-Z]+ word.            *)

LatinCapitals == {"A", "B"}
LatinWord(t) == t # <<>> /\ \A i \in 1..Len(t) : t[i] \in LatinCapitals

Retained(ln) == ln # <<>> /\ Head(ln) # "#"

\* a retained line that breaks the colon, the empty-identifier or the character rule
Malformed(ln) ==
    \/ ~InSeq(":", ln)
    \/ LET at == IndexOf(":", ln)
           ident == Strip(SubSeq(ln, 1, at - 1))
           toks == SplitWs(SubSeq(ln, at + 1, Len(ln)))
       IN  \/ ident = <<>>
           \/ ~LatinWord(ident)
           \/ \E k \in 1..Len(toks) : ~LatinWord(toks[k])

\* this step reads a line of the file
Reads == pc = "load" /\ line_num' = line_num + 1

(* C7: the load is all-or-nothing: reading a retained line that has no     *)
(* colon, an empty identifier, or an identifier or dependency token that   *)
(* is not an [A-Z]+ word ends the load in an error naming that line's      *)
(* 1-based number; after an error no repository is returned, the graph     *)
(* builder is never invoked and no graph is produced.                      *)
C7_LoadAllOrNothing ==
    [][ /\ (Reads /\ Retained(line') /\ Malformed(line'))
            => (pc' = "error" /\ err_line' = line_num')
        /\ pc' = "error"
            => /\ err_line' = line_num' /\ Retained(line') /\ Malformed(line')
               /\ repo' = EmptyDict /\ graph' = EmptyDict /\ stack' = <<>>
      ]_vars

-----------------------------------------------------------------------------
(* C8: every repository load_test_repo returns has only [A-Z]+ words as    *)
(* keys and as elements of its dependency lists.                           *)
C8_ReturnedRepoIsLatin ==
    pc \in {"loaded", "dfs", "done"} =>
        \A k \in DOMAIN repo :
            LatinWord(k) /\ \A j \in 1..Len(repo[k]) : LatinWord(repo[k][j])

=============================================================================
